---------------------------- MODULE Spec2Model ----------------------------
(***************************************************************************)
(* State-machine model of the Go2 example programs:                        *)
(*   - the autonomous IMU straight-line program                            *)
(*     (SimpleIMUStraightController and its main),                         *)
(*   - the keyboard teleoperation program (SimpleKeyboardController),      *)
(*   - the mode-command program (Custom).                                  *)
(*                                                                         *)
(* Units.  Angles are integers in units of 0.01 rad (M_PI = 314), angular  *)
(* rates in 0.001 rad/s, linear speeds in mm/s, target distances in mm,    *)
(* the distance estimate in micrometres and times in ms.  Arithmetic on    *)
(* these integers is exact: the floats' rounding is not modelled.          *)
(***************************************************************************)
EXTENDS Integers, Sequences, FiniteSets, TLC

VARIABLES
  prog,            \* which program or part runs: "imu", "kbd", "mode", "norm",
                   \* "turns", "law" or "plant"
  pc,              \* position of the program's main thread
  ctr,             \* loop counter i of the constructor's start-up loops
  seg,             \* index into main's plan of the segment being executed
  elapsed,         \* ms elapsed on the steady clock since start_time
  traveled,        \* MoveForward's local traveled_distance, micrometres
  running,         \* std::atomic<bool> running
  initial_yaw,     \* float initial_yaw
  target_yaw,      \* float target_yaw
  target_angle,    \* Turn's parameter target_angle
  yaw_initialized, \* bool yaw_initialized
  state_yaw,       \* state.imu_state().rpy()[2] of the stored sample
  subscribed,      \* the feedback channel has been initialised
  hpc,             \* position of the feedback callback HighStateHandler
  last_cmd,        \* the last command handed to the sport client
  cmd_seg,         \* plan index of the segment that sent last_cmd (-1: none)
  seg_stops,       \* StopMove commands sent by the current segment call
  move_after_stop, \* a Move was sent after the StopMove of the same call
  arrived,         \* the last Turn left its loop through the tolerance test
  executed,        \* number of plan segments that ran to their StopMove
  skipped,         \* the last call of the plan returned at its yaw_initialized guard
  torn_read,       \* the last yaw read by a control loop was no sample's yaw
  post_cancel,     \* commands sent since running was cleared by another context
  exit_status,     \* return value of main once it has returned (else "none")
  current_mode,    \* control_mode current_mode of the keyboard controller
  TEST_MODE,       \* int TEST_MODE of Custom
  flag,            \* int flag of Custom
  thread_started,  \* the recurrent control thread exists
  ticks,           \* control ticks run so far (counted up to MaxTicks)
  tick_cmds,       \* commands the last control tick sent
  exit_ticks,      \* control ticks run since the exit key (-1: no exit key yet)
  theta,           \* a raw heading error handed to the normalisation loops
  kshift,          \* a number of whole turns added to theta
  norm_out,        \* the loops' result for theta
  norm_shifted,    \* the loops' result for theta + 2 pi kshift
  seg_pass,        \* passes of the loop body in the current segment call:
                   \* "none", "first" (one pass) or "later" (more)
  latched,         \* HighStateHandler has completed a latch of the heading
  key_seen,        \* HandleInput has received a key it has a case for
  last_key,        \* the key the last HandleInput got from GetKey
  last_err,        \* the normalised heading error of the last control pass
  argc,            \* argc of the mode-command program's main
  argv_mode,       \* argv[2] of the mode-command program, a sequence of characters
  main_mode,       \* int mode of the mode-command program's main
  ctor_sent        \* how many StandUp, BalanceStand and StopMove commands the
                   \* controller's constructor has sent

vars == << prog, pc, ctr, seg, elapsed, traveled, running, initial_yaw, target_yaw,
           target_angle, yaw_initialized, state_yaw, subscribed, hpc,
           last_cmd, cmd_seg, seg_stops, move_after_stop, arrived, executed,
           skipped, torn_read, post_cancel, exit_status, current_mode,
           TEST_MODE, flag, thread_started, ticks, tick_cmds, exit_ticks,
           theta, kshift, norm_out, norm_shifted, seg_pass, latched,
           key_seen, last_key, last_err, argc, argv_mode, main_mode,
           ctor_sent >>

----------------------------------------------------------------------------
(* Program constants *)

PI == 314
TWO_PI == 2 * PI
HALF_PI == 157
NINTH_PI == 35
ANGLE_TOLERANCE == 5
TURN_SPEED == 500
FORWARD_SPEED == 500
YAW_CORRECTION_GAIN == 5
YAW_CORRECTION_LIMIT == 300
SLEEP_MS == 20
STARTUP_REPEATS == 30

(* Bounds of the model *)

\* Granularity at which a racing copy of the sample can be observed half
\* written: a torn read takes the part above TearUnit from one sample and
\* the part below it from the other.
TearUnit == 16

\* Time a pass of a control loop takes beyond its usleep (the command call
\* and the loop's own work), ms.
CallLatencyMs == 180

\* Cap of the counter of commands sent after a cancellation.
PostCap == 3

Abs(x) == IF x < 0 THEN -x ELSE x
Min(a, b) == IF a < b THEN a ELSE b
Max(a, b) == IF a > b THEN a ELSE b

----------------------------------------------------------------------------
(* Commands handed to the sport client *)

Cmd(k, x, y, z) == [k |-> k, x |-> x, y |-> y, z |-> z]
NoCmd == Cmd("None", 0, 0, 0)
StopMove == Cmd("StopMove", 0, 0, 0)
StandUp == Cmd("StandUp", 0, 0, 0)
StandDown == Cmd("StandDown", 0, 0, 0)
BalanceStand == Cmd("BalanceStand", 0, 0, 0)
Move(vx, vy, vyaw) == Cmd("Move", vx, vy, vyaw)

\* The constructor's count of sent commands: none sent, the whole start-up
\* sequence sent, and the count after the constructor sent command c.
NoneSent == [standup |-> 0, balance |-> 0, stop |-> 0]
StartupSent ==
  [standup |-> STARTUP_REPEATS, balance |-> STARTUP_REPEATS, stop |-> 1]
CtorSend(n, c) ==
  CASE c = StandUp      -> [n EXCEPT !.standup = @ + 1]
    [] c = BalanceStand -> [n EXCEPT !.balance = @ + 1]
    [] c = StopMove     -> [n EXCEPT !.stop = @ + 1]
    [] OTHER            -> n

----------------------------------------------------------------------------
(* Heading arithmetic of MoveForward and Turn *)

\* Mutant: an if in place of the while.
WrapDown_Once(e) == IF e > PI THEN e - TWO_PI ELSE e

\* while (e > M_PI) e -= 2 * M_PI;
RECURSIVE WrapDown(_)
WrapDown(e) == IF e > PI THEN WrapDown(e - TWO_PI) ELSE e

\* Mutant: <= in place of <.
RECURSIVE WrapUp_Inclusive(_)
WrapUp_Inclusive(e) == IF e <= -PI THEN WrapUp_Inclusive(e + TWO_PI) ELSE e

\* while (e < -M_PI) e += 2 * M_PI;
RECURSIVE WrapUp(_)
WrapUp(e) == IF e < -PI THEN WrapUp(e + TWO_PI) ELSE e

\* The two normalisation loops, in the order the code runs them.
Normalize(e) == WrapUp(WrapDown(e))

\* Mutant: <= in place of <.
IsAtTarget_Inclusive(err) == Abs(err) <= ANGLE_TOLERANCE

\* std::abs(angle_error) < angle_tolerance
IsAtTarget(err) == Abs(err) < ANGLE_TOLERANCE

\* Mutant: a rate proportional to the error, as in MoveForward.
TurnDirection_Proportional(err) == err * YAW_CORRECTION_GAIN

\* (angle_error > 0) ? turn_speed : -turn_speed
TurnDirection(err) == IF err > 0 THEN TURN_SPEED ELSE -TURN_SPEED

\* Mutant: the clamp left out.
YawCorrection_Unclamped(err) == err * YAW_CORRECTION_GAIN

\* yaw_error * yaw_correction_gain clamped to [-0.3, 0.3]
YawCorrection(err) ==
  Max(-YAW_CORRECTION_LIMIT, Min(YAW_CORRECTION_LIMIT, err * YAW_CORRECTION_GAIN))

\* forward_speed * elapsed.count() / 1000.0f, in micrometres
TraveledDistance(ms) == FORWARD_SPEED * ms

----------------------------------------------------------------------------
(* The autonomous program: feedback samples and main's plan *)

\* Yaw values the transport may deliver, all within its range [-pi, pi].
SampleYaws == {-HALF_PI, 0, NINTH_PI, HALF_PI, PI}

\* Values an uninitialised float member may hold before the constructor
\* assigns it.
GarbageYaws == {0, HALF_PI}

MoveForwardSeg(mm) == [op |-> "MoveForward", d |-> mm, delta |-> 0]
TurnLeftSeg(a) == [op |-> "TurnLeft", d |-> 0, delta |-> a]
TurnRightSeg(a) == [op |-> "TurnRight", d |-> 0, delta |-> a]

\* The calls main makes on the controller, in order.
Plan ==
  << MoveForwardSeg(1000), TurnLeftSeg(NINTH_PI),
     MoveForwardSeg(1300), TurnRightSeg(NINTH_PI),
     MoveForwardSeg(3200), TurnLeftSeg(HALF_PI),
     MoveForwardSeg(5300), TurnLeftSeg(HALF_PI),
     MoveForwardSeg(7500), TurnLeftSeg(HALF_PI),
     MoveForwardSeg(800), TurnLeftSeg(HALF_PI),
     MoveForwardSeg(6000), TurnRightSeg(HALF_PI),
     MoveForwardSeg(3500), TurnRightSeg(HALF_PI),
     MoveForwardSeg(5000) >>

PlanLen == Len(Plan)
CurSeg == Plan[seg + 1]
IsTurnOp(op) == op \in {"TurnLeft", "TurnRight"}

\* target_yaw += a; while (target_yaw > M_PI) target_yaw -= 2 * M_PI;
TurnLeftTarget(t, a) == WrapDown(t + a)

\* Mutant: the wrapping loop left out.
TurnRightTarget_NoWrap(t, a) == t - a

\* target_yaw -= a; while (target_yaw < -M_PI) target_yaw += 2 * M_PI;
TurnRightTarget(t, a) == WrapUp(t - a)

\* while (running && traveled_distance < distance_meters), the estimate t in
\* micrometres and the target d in mm
MoveForwardLoopCond(r, t, d) == r /\ t < d * 1000

\* Mutant: the loop condition negated.
TurnLoopCond_Negated(r) == ~r

\* while (running)
TurnLoopCond(r) == r

\* A value made of the upper part of one yaw and the lower part of another.
Mix(a, b) == (a \div TearUnit) * TearUnit + (b % TearUnit)

\* The callback can start copying a message while a control loop runs.
CanDeliver == subscribed /\ hpc = "idle" /\ pc # "exit"

\* The ways a copy into state (state = *message) can overlap a control
\* loop's read of state.imu_state().rpy()[2]: no copy overlaps it, or the
\* copy of a message with the given yaw does.
Racing ==
  {[overlap |-> FALSE, yaw |-> state_yaw]}
    \cup (IF CanDeliver
          THEN {[overlap |-> TRUE, yaw |-> y] : y \in SampleYaws}
          ELSE {})

\* What the unsynchronised read can return: the stored yaw, or, when the
\* copy of message m overlaps it, the old yaw, the new one or a mixture.
ReadYaw(m) ==
  IF m.overlap
  THEN {state_yaw, m.yaw, Mix(state_yaw, m.yaw), Mix(m.yaw, state_yaw)}
  ELSE {state_yaw}

\* The read returned the yaw of neither the stored nor the delivered sample.
IsTorn(y, m) == y # state_yaw /\ y # m.yaw

\* if (!yaw_initialized): where the callback goes after the copy
AfterCopy == IF ~yaw_initialized THEN "latch_initial" ELSE "idle"

\* The callback's side of a read that overlapped the copy of m: the copy
\* completes and the callback tests yaw_initialized.
CopyOverlapped(m) ==
  IF m.overlap
  THEN state_yaw' = m.yaw /\ hpc' = AfterCopy
  ELSE UNCHANGED << state_yaw, hpc >>

\* The count of loop passes after one more pass.
NextPass(n) == IF n = "none" THEN "first" ELSE "later"

InPlan == pc \in {"mf_loop", "mf_body", "mf_sleep", "mf_stop",
                  "t_loop", "t_body", "t_sleep", "t_stop"}

\* Book-keeping of a command handed to sport_client.
Send(c) ==
  /\ last_cmd' = c
  /\ cmd_seg' = IF InPlan THEN seg ELSE -1
  /\ seg_stops' = IF c = StopMove THEN Min(seg_stops + 1, 2) ELSE seg_stops
  /\ move_after_stop' = (move_after_stop \/ (c.k = "Move" /\ seg_stops > 0))
  /\ post_cancel' = IF post_cancel >= 0 THEN Min(post_cancel + 1, PostCap)
                                         ELSE post_cancel

main_locals == << pc, ctr, seg, elapsed, traveled, target_angle, exit_status >>
members == << running, initial_yaw, target_yaw, yaw_initialized >>
hvars == << subscribed, hpc, state_yaw >>
ghost == << last_cmd, cmd_seg, seg_stops, move_after_stop, post_cancel >>
hist == << arrived, executed, skipped, torn_read, latched, seg_pass >>
nvars == << theta, kshift, norm_out, norm_shifted >>
kvars == << key_seen, last_key >>
avars == << last_err, argc, argv_mode, main_mode >>
dvars_nc == << prog, current_mode, TEST_MODE, flag, thread_started, ticks,
               tick_cmds, exit_ticks, nvars, kvars, avars >>
dvars == << dvars_nc, ctor_sent >>

NoSend == UNCHANGED ghost

\* The members are uninitialised until the constructor assigns them, and the
\* default-constructed sample holds zeros.
Init ==
  /\ prog = "imu"
  /\ current_mode = 0
  /\ TEST_MODE = 0
  /\ flag = 0
  /\ thread_started = FALSE
  /\ ticks = 0
  /\ tick_cmds = 0
  /\ exit_ticks = -1
  /\ theta = 0 /\ kshift = 0 /\ norm_out = 0 /\ norm_shifted = 0
  /\ pc = "c_sub"
  /\ ctr = 0
  /\ seg = 0
  /\ elapsed = 0
  /\ traveled = 0
  /\ running \in BOOLEAN
  /\ initial_yaw \in GarbageYaws
  /\ target_yaw \in GarbageYaws
  /\ target_angle = 0
  /\ yaw_initialized \in BOOLEAN
  /\ state_yaw = 0
  /\ subscribed = FALSE
  /\ hpc = "idle"
  /\ last_cmd = NoCmd
  /\ cmd_seg = -1
  /\ seg_stops = 0
  /\ move_after_stop = FALSE
  /\ arrived = FALSE
  /\ executed = 0
  /\ skipped = FALSE
  /\ torn_read = FALSE
  /\ post_cancel = -1
  /\ exit_status = "none"
  /\ seg_pass = "none" /\ latched = FALSE /\ key_seen = FALSE
  /\ last_key = "none" /\ last_err = 0 /\ argc = 0 /\ argv_mode = << >>
  /\ main_mode = 0
  /\ ctor_sent = NoneSent

(* -- the feedback callback HighStateHandler -- *)

\* The transport invokes the callback with a message: state = *message,
\* with no control loop reading state meanwhile, then if (!yaw_initialized).
H_Deliver ==
  /\ CanDeliver
  /\ \E m \in SampleYaws : state_yaw' = m
  /\ hpc' = AfterCopy
  /\ UNCHANGED << dvars, main_locals, members, subscribed, hist >>
  /\ NoSend

\* initial_yaw = state.imu_state().rpy()[2];
H_LatchInitial ==
  /\ hpc = "latch_initial"
  /\ initial_yaw' = state_yaw
  /\ hpc' = "latch_target"
  /\ UNCHANGED << dvars, main_locals, running, target_yaw, yaw_initialized,
                  subscribed, state_yaw, hist >>
  /\ NoSend

\* target_yaw = initial_yaw;
H_LatchTarget ==
  /\ hpc = "latch_target"
  /\ target_yaw' = initial_yaw
  /\ hpc' = "latch_flag"
  /\ UNCHANGED << dvars, main_locals, running, initial_yaw, yaw_initialized,
                  subscribed, state_yaw, hist >>
  /\ NoSend

\* yaw_initialized = true;
H_LatchFlag ==
  /\ hpc = "latch_flag"
  /\ yaw_initialized' = TRUE
  /\ latched' = TRUE
  /\ hpc' = "idle"
  /\ UNCHANGED << dvars, main_locals, running, initial_yaw, target_yaw,
                  subscribed, state_yaw, arrived, executed, skipped, torn_read,
                  seg_pass >>
  /\ NoSend

(* -- the constructor SimpleIMUStraightController() -- *)

\* state_suber->InitChannel(...): from here on the callback may run.
C_Subscribe ==
  /\ pc = "c_sub"
  /\ subscribed' = TRUE
  /\ pc' = "c_running"
  /\ UNCHANGED << dvars, ctr, seg, elapsed, traveled, target_angle, exit_status,
                  members, hpc, state_yaw, hist >>
  /\ NoSend

\* running = true;
C_SetRunning ==
  /\ pc = "c_running"
  /\ running' = TRUE
  /\ pc' = "c_initial"
  /\ UNCHANGED << dvars, ctr, seg, elapsed, traveled, target_angle, exit_status,
                  initial_yaw, target_yaw, yaw_initialized, hvars, hist >>
  /\ NoSend

\* initial_yaw = 0.0f;
C_ZeroInitial ==
  /\ pc = "c_initial"
  /\ initial_yaw' = 0
  /\ pc' = "c_target"
  /\ UNCHANGED << dvars, ctr, seg, elapsed, traveled, target_angle, exit_status,
                  running, target_yaw, yaw_initialized, hvars, hist >>
  /\ NoSend

\* target_yaw = 0.0f;
C_ZeroTarget ==
  /\ pc = "c_target"
  /\ target_yaw' = 0
  /\ pc' = "c_flag"
  /\ UNCHANGED << dvars, ctr, seg, elapsed, traveled, target_angle, exit_status,
                  running, initial_yaw, yaw_initialized, hvars, hist >>
  /\ NoSend

\* yaw_initialized = false;
C_ClearFlag ==
  /\ pc = "c_flag"
  /\ yaw_initialized' = FALSE
  /\ pc' = "c_standup"
  /\ ctr' = 0
  /\ UNCHANGED << dvars, seg, elapsed, traveled, target_angle, exit_status,
                  running, initial_yaw, target_yaw, hvars, hist >>
  /\ NoSend

\* Mutant: the StandUp loop one repetition short.
C_StandUp_OneShort ==
  /\ pc = "c_standup"
  /\ IF ctr < STARTUP_REPEATS - 1
     THEN /\ Send(StandUp)
          /\ ctor_sent' = CtorSend(ctor_sent, StandUp)
          /\ ctr' = ctr + 1
          /\ pc' = pc
     ELSE /\ NoSend
          /\ ctor_sent' = ctor_sent
          /\ ctr' = 0
          /\ pc' = "c_balance"
  /\ UNCHANGED << dvars_nc, seg, elapsed, traveled, target_angle, exit_status,
                  members, hvars, hist >>

\* for (int i = 0; i < 30; i++) { sport_client.StandUp(); usleep(100000); }
C_StandUp ==
  /\ pc = "c_standup"
  /\ IF ctr < STARTUP_REPEATS
     THEN /\ Send(StandUp)
          /\ ctor_sent' = CtorSend(ctor_sent, StandUp)
          /\ ctr' = ctr + 1
          /\ pc' = pc
     ELSE /\ NoSend
          /\ ctor_sent' = ctor_sent
          /\ ctr' = 0
          /\ pc' = "c_balance"
  /\ UNCHANGED << dvars_nc, seg, elapsed, traveled, target_angle, exit_status,
                  members, hvars, hist >>

\* for (int i = 0; i < 30; i++) { sport_client.BalanceStand(); usleep(100000); }
C_BalanceStand ==
  /\ pc = "c_balance"
  /\ IF ctr < STARTUP_REPEATS
     THEN /\ Send(BalanceStand)
          /\ ctor_sent' = CtorSend(ctor_sent, BalanceStand)
          /\ ctr' = ctr + 1
          /\ pc' = pc
     ELSE /\ NoSend
          /\ ctor_sent' = ctor_sent
          /\ ctr' = 0
          /\ pc' = "c_stop"
  /\ UNCHANGED << dvars_nc, seg, elapsed, traveled, target_angle, exit_status,
                  members, hvars, hist >>

\* sport_client.StopMove(); ends the constructor.
C_StopMove ==
  /\ pc = "c_stop"
  /\ Send(StopMove)
  /\ ctor_sent' = CtorSend(ctor_sent, StopMove)
  /\ pc' = "m_wait"
  /\ UNCHANGED << dvars_nc, ctr, seg, elapsed, traveled, target_angle, exit_status,
                  members, hvars, hist >>

(* -- main of the autonomous program -- *)

\* sleep(3);
M_Wait ==
  /\ pc = "m_wait"
  /\ pc' = "m_check"
  /\ UNCHANGED << dvars, ctr, seg, elapsed, traveled, target_angle, exit_status,
                  members, hvars, hist >>
  /\ NoSend

\* if (!controller.IsInitialized()) return -1;
M_CheckInitialized ==
  /\ pc = "m_check"
  /\ IF yaw_initialized
     THEN pc' = "call" /\ exit_status' = exit_status
     ELSE pc' = "d_running" /\ exit_status' = "-1"
  /\ seg' = 0
  /\ UNCHANGED << dvars, ctr, elapsed, traveled, target_angle, members, hvars, hist >>
  /\ NoSend

\* sleep(1); after each call of the plan
M_Sleep ==
  /\ pc = "m_sleep"
  /\ seg' = seg + 1
  /\ pc' = "call"
  /\ UNCHANGED << dvars, ctr, elapsed, traveled, target_angle, exit_status,
                  members, hvars, hist >>
  /\ NoSend

\* return 0; after the last call
M_Return ==
  /\ pc = "call" /\ seg = PlanLen
  /\ exit_status' = "0"
  /\ pc' = "d_running"
  /\ UNCHANGED << dvars, ctr, seg, elapsed, traveled, target_angle,
                  members, hvars, hist >>
  /\ NoSend

(* -- MoveForward(distance_meters) -- *)

\* if (!yaw_initialized) return; else start_time = now, traveled_distance = 0
MF_Entry ==
  /\ pc = "call" /\ seg < PlanLen /\ CurSeg.op = "MoveForward"
  /\ pc' = IF ~yaw_initialized THEN "m_sleep" ELSE "mf_loop"
  /\ skipped' = ~yaw_initialized
  /\ elapsed' = 0
  /\ traveled' = 0
  /\ seg_stops' = 0
  /\ move_after_stop' = FALSE
  /\ seg_pass' = "none"
  /\ UNCHANGED << dvars, ctr, seg, target_angle, exit_status, members, hvars,
                  arrived, executed, torn_read, latched, last_cmd, cmd_seg,
                  post_cancel >>

\* while (running && traveled_distance < distance_meters)
MF_Loop ==
  /\ pc = "mf_loop"
  /\ pc' = IF MoveForwardLoopCond(running, traveled, CurSeg.d)
           THEN "mf_body" ELSE "mf_stop"
  /\ UNCHANGED << dvars, ctr, seg, elapsed, traveled, target_angle, exit_status,
                  members, hvars, hist >>
  /\ NoSend

\* The loop body up to the distance estimate: read the yaw, normalise the
\* error, Move with the clamped correction, read the clock.
MF_Body ==
  /\ pc = "mf_body"
  /\ \E m \in Racing : \E current_yaw \in ReadYaw(m) :
       LET yaw_error == Normalize(target_yaw - current_yaw) IN
         /\ Send(Move(FORWARD_SPEED, 0, YawCorrection(yaw_error)))
         /\ torn_read' = IsTorn(current_yaw, m)
         /\ CopyOverlapped(m)
  /\ traveled' = TraveledDistance(elapsed)
  /\ seg_pass' = NextPass(seg_pass)
  /\ pc' = "mf_sleep"
  /\ UNCHANGED << dvars, ctr, seg, elapsed, target_angle, exit_status,
                  members, subscribed, arrived, executed, skipped, latched >>

\* usleep(20000); the clock has advanced by one loop period at the next pass
MF_Sleep ==
  /\ pc = "mf_sleep"
  /\ elapsed' = elapsed + SLEEP_MS + CallLatencyMs
  /\ pc' = "mf_loop"
  /\ UNCHANGED << dvars, ctr, seg, traveled, target_angle, exit_status,
                  members, hvars, hist >>
  /\ NoSend

\* Mutant: MoveForward returns without its StopMove.
MF_Stop_Missing ==
  /\ pc = "mf_stop"
  /\ NoSend
  /\ executed' = executed + 1
  /\ pc' = "m_sleep"
  /\ UNCHANGED << dvars, ctr, seg, elapsed, traveled, target_angle, exit_status,
                  members, hvars, arrived, skipped, torn_read, latched,
                  seg_pass >>

\* sport_client.StopMove(); after the loop
MF_Stop ==
  /\ pc = "mf_stop"
  /\ Send(StopMove)
  /\ executed' = executed + 1
  /\ pc' = "m_sleep"
  /\ UNCHANGED << dvars, ctr, seg, elapsed, traveled, target_angle, exit_status,
                  members, hvars, arrived, skipped, torn_read, latched,
                  seg_pass >>

(* -- TurnLeft../TurnRight..Degrees and Turn(target_angle) -- *)

\* if (!yaw_initialized) return; target_yaw +-= angle, wrapped; Turn(target_yaw)
T_Entry ==
  /\ pc = "call" /\ seg < PlanLen /\ IsTurnOp(CurSeg.op)
  /\ IF ~yaw_initialized
     THEN /\ pc' = "m_sleep"
          /\ UNCHANGED << target_yaw, target_angle >>
     ELSE /\ pc' = "t_loop"
          /\ target_yaw' = IF CurSeg.op = "TurnLeft"
                           THEN TurnLeftTarget(target_yaw, CurSeg.delta)
                           ELSE TurnRightTarget(target_yaw, CurSeg.delta)
          /\ target_angle' = target_yaw'
  /\ skipped' = ~yaw_initialized
  /\ seg_stops' = 0
  /\ move_after_stop' = FALSE
  /\ seg_pass' = "none"
  /\ arrived' = FALSE
  /\ UNCHANGED << dvars, ctr, seg, elapsed, traveled, exit_status,
                  running, initial_yaw, yaw_initialized, hvars,
                  executed, torn_read, latched, last_cmd, cmd_seg, post_cancel >>

\* while (running)
T_Loop ==
  /\ pc = "t_loop"
  /\ pc' = IF TurnLoopCond(running) THEN "t_body" ELSE "t_stop"
  /\ UNCHANGED << dvars, ctr, seg, elapsed, traveled, target_angle, exit_status,
                  members, hvars, hist >>
  /\ NoSend

\* Mutant: the Move is sent before the tolerance test.
T_Body_MoveFirst ==
  /\ pc = "t_body"
  /\ \E m \in Racing : \E current_yaw \in ReadYaw(m) :
       LET angle_error == Normalize(target_angle - current_yaw) IN
         /\ torn_read' = IsTorn(current_yaw, m)
         /\ CopyOverlapped(m)
         /\ Send(Move(0, 0, TurnDirection(angle_error)))
         /\ IF IsAtTarget(angle_error)
            THEN arrived' = TRUE /\ pc' = "t_stop"
            ELSE arrived' = arrived /\ pc' = "t_sleep"
  /\ seg_pass' = NextPass(seg_pass)
  /\ UNCHANGED << dvars, ctr, seg, elapsed, traveled, target_angle, exit_status,
                  members, subscribed, executed, skipped, latched >>

\* The loop body: read the yaw, normalise the error, break inside the
\* tolerance, otherwise Move at the fixed turn speed.
T_Body ==
  /\ pc = "t_body"
  /\ \E m \in Racing : \E current_yaw \in ReadYaw(m) :
       LET angle_error == Normalize(target_angle - current_yaw) IN
         /\ torn_read' = IsTorn(current_yaw, m)
         /\ CopyOverlapped(m)
         /\ IF IsAtTarget(angle_error)
            THEN /\ arrived' = TRUE
                 /\ pc' = "t_stop"
                 /\ NoSend
            ELSE /\ arrived' = arrived
                 /\ pc' = "t_sleep"
                 /\ Send(Move(0, 0, TurnDirection(angle_error)))
  /\ seg_pass' = NextPass(seg_pass)
  /\ UNCHANGED << dvars, ctr, seg, elapsed, traveled, target_angle, exit_status,
                  members, subscribed, executed, skipped, latched >>

\* usleep(20000);
T_Sleep ==
  /\ pc = "t_sleep"
  /\ pc' = "t_loop"
  /\ UNCHANGED << dvars, ctr, seg, elapsed, traveled, target_angle, exit_status,
                  members, hvars, hist >>
  /\ NoSend

\* sport_client.StopMove(); after the loop
T_Stop ==
  /\ pc = "t_stop"
  /\ Send(StopMove)
  /\ executed' = executed + 1
  /\ pc' = "m_sleep"
  /\ UNCHANGED << dvars, ctr, seg, elapsed, traveled, target_angle, exit_status,
                  members, hvars, arrived, skipped, torn_read, latched,
                  seg_pass >>

(* -- the destructor ~SimpleIMUStraightController(), run when main returns -- *)

\* running = false;
D_ClearRunning ==
  /\ pc = "d_running"
  /\ running' = FALSE
  /\ pc' = "d_stop"
  /\ UNCHANGED << dvars, ctr, seg, elapsed, traveled, target_angle, exit_status,
                  initial_yaw, target_yaw, yaw_initialized, hvars, hist >>
  /\ NoSend

\* sport_client.StopMove();
D_StopMove ==
  /\ pc = "d_stop"
  /\ Send(StopMove)
  /\ pc' = "exit"
  /\ UNCHANGED << dvars, ctr, seg, elapsed, traveled, target_angle, exit_status,
                  members, hvars, hist >>

\* Another context clears the public atomic flag while a control loop runs.
Cancel ==
  /\ pc \in {"mf_loop", "mf_body", "mf_sleep", "t_loop", "t_body", "t_sleep"}
  /\ running
  /\ running' = FALSE
  /\ post_cancel' = 0
  /\ UNCHANGED << dvars, main_locals, initial_yaw, target_yaw, yaw_initialized,
                  hvars, hist, last_cmd, cmd_seg, seg_stops, move_after_stop >>

Next ==
  \/ H_Deliver
  \/ H_LatchInitial \/ H_LatchTarget \/ H_LatchFlag
  \/ C_Subscribe \/ C_SetRunning \/ C_ZeroInitial \/ C_ZeroTarget
  \/ C_ClearFlag \/ C_StandUp \/ C_BalanceStand \/ C_StopMove
  \/ M_Wait \/ M_CheckInitialized \/ M_Sleep \/ M_Return
  \/ MF_Entry \/ MF_Loop \/ MF_Body \/ MF_Sleep \/ MF_Stop
  \/ T_Entry \/ T_Loop \/ T_Body \/ T_Sleep \/ T_Stop
  \/ D_ClearRunning \/ D_StopMove

Spec == Init /\ [][Next]_vars

NextCancel == Next \/ Cancel

SpecCancel == Init /\ [][NextCancel]_vars

----------------------------------------------------------------------------
(* The mode dispatchers: keyboard teleoperation and the mode-command program *)

\* enum control_mode
STOP == 0
FORWARD == 1
BACKWARD == 2
LEFT_TURN == 3
RIGHT_TURN == 4
LEFT_SIDE == 5
RIGHT_SIDE == 6
STAND_UP == 7
STAND_DOWN == 8

ControlModes == STOP .. STAND_DOWN

\* enum test_mode
normal_stand == 0
balance_stand == 1
velocity_move == 2
stand_down == 3
stand_up == 4
damp == 5
recovery_stand == 6
sit == 7
rise_sit == 8
stop_move == 99

TestModes == (normal_stand .. rise_sit) \cup {stop_move}

\* Largest control ticks counted, and the range of selector values the
\* dispatchers are applied to beyond their enumerators.
MaxTicks == 3
SelectorSlack == 3

SelectorValues ==
  ((0 - SelectorSlack) .. (rise_sit + SelectorSlack))
    \cup ((stop_move - SelectorSlack) .. (stop_move + SelectorSlack))

\* Values an uninitialised control_mode member may hold.
GarbageModes == {STOP, FORWARD, STAND_DOWN + SelectorSlack}

\* Mutant: the switch without its default label.
KbdCommands_NoDefault(mode) ==
  CASE mode = FORWARD    -> << Move(300, 0, 0) >>
    [] mode = BACKWARD   -> << Move(-300, 0, 0) >>
    [] mode = LEFT_TURN  -> << Move(0, 0, 400) >>
    [] mode = RIGHT_TURN -> << Move(0, 0, -400) >>
    [] mode = LEFT_SIDE  -> << Move(0, 400, 0) >>
    [] mode = RIGHT_SIDE -> << Move(0, -400, 0) >>
    [] mode = STAND_UP   -> << StandUp >>
    [] mode = STAND_DOWN -> << StandDown >>
    [] mode = STOP       -> << StopMove >>
    [] OTHER             -> << >>

\* The switch of SimpleKeyboardController::RobotControl: the commands one
\* tick sends for a value of current_mode.
KbdCommands(mode) ==
  CASE mode = FORWARD    -> << Move(300, 0, 0) >>
    [] mode = BACKWARD   -> << Move(-300, 0, 0) >>
    [] mode = LEFT_TURN  -> << Move(0, 0, 400) >>
    [] mode = RIGHT_TURN -> << Move(0, 0, -400) >>
    [] mode = LEFT_SIDE  -> << Move(0, 400, 0) >>
    [] mode = RIGHT_SIDE -> << Move(0, -400, 0) >>
    [] mode = STAND_UP   -> << StandUp >>
    [] mode = STAND_DOWN -> << StandDown >>
    [] OTHER             -> << StopMove >>

\* Mutant: Sit and RiseSit sent whatever flag holds.
CustomCommands_NoFlagTest(mode, f) ==
  CASE mode = normal_stand   -> << StandUp >>
    [] mode = balance_stand  -> << BalanceStand >>
    [] mode = velocity_move  -> << Move(300, 0, 300) >>
    [] mode = stand_down     -> << StandDown >>
    [] mode = stand_up       -> << StandUp >>
    [] mode = damp           -> << Cmd("Damp", 0, 0, 0) >>
    [] mode = recovery_stand -> << Cmd("RecoveryStand", 0, 0, 0) >>
    [] mode = sit            -> << Cmd("Sit", 0, 0, 0) >>
    [] mode = rise_sit       -> << Cmd("RiseSit", 0, 0, 0) >>
    [] mode = stop_move      -> << StopMove >>
    [] OTHER                 -> << StopMove >>

\* The switch of Custom::RobotControl: the commands one tick sends for a
\* value of TEST_MODE and of flag.
CustomCommands(mode, f) ==
  CASE mode = normal_stand   -> << StandUp >>
    [] mode = balance_stand  -> << BalanceStand >>
    [] mode = velocity_move  -> << Move(300, 0, 300) >>
    [] mode = stand_down     -> << StandDown >>
    [] mode = stand_up       -> << StandUp >>
    [] mode = damp           -> << Cmd("Damp", 0, 0, 0) >>
    [] mode = recovery_stand -> << Cmd("RecoveryStand", 0, 0, 0) >>
    [] mode = sit            -> IF f = 0 THEN << Cmd("Sit", 0, 0, 0) >> ELSE << >>
    [] mode = rise_sit       -> IF f = 0 THEN << Cmd("RiseSit", 0, 0, 0) >> ELSE << >>
    [] mode = stop_move      -> << StopMove >>
    [] OTHER                 -> << StopMove >>

\* Mutant: flag = 1 is never executed.
CustomFlag_NeverSet(mode, f) == f

\* flag after a tick of Custom::RobotControl
CustomFlag(mode, f) == IF mode \in {sit, rise_sit} /\ f = 0 THEN 1 ELSE f

\* The keys GetKey can return; "none" is its 0 (nothing pending) and "x"
\* stands for any key HandleInput has no case for.
Keys == {"none", "ESC", "w", "W", "s", "S", "a", "A", "d", "D", "q", "Q",
         "e", "E", "r", "R", "f", "F", " ", "h", "H", "x"}

\* Mutant: the help key also selects STOP.
KeyMode_HelpStops(key, mode) ==
  CASE key \in {"w", "W"} -> FORWARD
    [] key \in {"s", "S"} -> BACKWARD
    [] key \in {"a", "A"} -> LEFT_TURN
    [] key \in {"d", "D"} -> RIGHT_TURN
    [] key \in {"q", "Q"} -> LEFT_SIDE
    [] key \in {"e", "E"} -> RIGHT_SIDE
    [] key \in {"r", "R"} -> STAND_UP
    [] key \in {"f", "F"} -> STAND_DOWN
    [] key \in {" ", "h", "H"} -> STOP
    [] OTHER              -> mode

\* The switch of HandleInput: current_mode after the key.
KeyMode(key, mode) ==
  CASE key \in {"w", "W"} -> FORWARD
    [] key \in {"s", "S"} -> BACKWARD
    [] key \in {"a", "A"} -> LEFT_TURN
    [] key \in {"d", "D"} -> RIGHT_TURN
    [] key \in {"q", "Q"} -> LEFT_SIDE
    [] key \in {"e", "E"} -> RIGHT_SIDE
    [] key \in {"r", "R"} -> STAND_UP
    [] key \in {"f", "F"} -> STAND_DOWN
    [] key = " "          -> STOP
    [] OTHER              -> mode

imu_only_nc == << seg, elapsed, traveled, initial_yaw, target_yaw, target_angle,
               yaw_initialized, state_yaw, subscribed, hpc, cmd_seg, seg_stops,
               move_after_stop, arrived, executed, skipped, torn_read,
               post_cancel, nvars, seg_pass, latched, avars >>
imu_only == << imu_only_nc, ctor_sent >>

\* Book-keeping of one control tick that sent the commands cs.
Tick(cs) ==
  /\ tick_cmds' = Len(cs)
  /\ last_cmd' = IF cs = << >> THEN last_cmd ELSE cs[Len(cs)]
  /\ ticks' = Min(ticks + 1, MaxTicks)
  /\ exit_ticks' = IF exit_ticks >= 0 THEN Min(exit_ticks + 1, MaxTicks)
                                       ELSE exit_ticks

\* SimpleKeyboardController is being constructed: bool running = true, the
\* other members not yet assigned.
InitKbd ==
  /\ prog = "kbd"
  /\ pc = "k_mode"
  /\ running = TRUE
  /\ current_mode \in GarbageModes
  /\ thread_started = FALSE
  /\ ctr = 0 /\ seg = 0 /\ elapsed = 0 /\ traveled = 0
  /\ initial_yaw = 0 /\ target_yaw = 0 /\ target_angle = 0
  /\ yaw_initialized = FALSE /\ state_yaw = 0 /\ subscribed = FALSE
  /\ hpc = "idle" /\ last_cmd = NoCmd /\ cmd_seg = -1 /\ seg_stops = 0
  /\ move_after_stop = FALSE /\ arrived = FALSE /\ executed = 0
  /\ skipped = FALSE /\ torn_read = FALSE /\ post_cancel = -1
  /\ exit_status = "none" /\ TEST_MODE = 0 /\ flag = 0
  /\ seg_pass = "none" /\ latched = FALSE /\ key_seen = FALSE
  /\ last_key = "none" /\ last_err = 0 /\ argc = 0 /\ argv_mode = << >>
  /\ main_mode = 0
  /\ ctor_sent = NoneSent
  /\ ticks = 0 /\ tick_cmds = 0 /\ exit_ticks = -1
  /\ theta = 0 /\ kshift = 0 /\ norm_out = 0 /\ norm_shifted = 0

(* -- the constructor SimpleKeyboardController() -- *)

\* Mutant: the constructor without current_mode = STOP.
K_SetMode_Missing ==
  /\ prog = "kbd" /\ pc = "k_mode"
  /\ pc' = "k_standup"
  /\ UNCHANGED << prog, ctr, running, exit_status, last_cmd, current_mode,
                  TEST_MODE, flag, thread_started, ticks, tick_cmds,
                  exit_ticks, imu_only, kvars >>

\* current_mode = STOP;
K_SetMode ==
  /\ prog = "kbd" /\ pc = "k_mode"
  /\ current_mode' = STOP
  /\ pc' = "k_standup"
  /\ UNCHANGED << prog, ctr, running, exit_status, last_cmd, TEST_MODE, flag,
                  thread_started, ticks, tick_cmds, exit_ticks, imu_only, kvars >>

\* for (int i = 0; i < 30; i++) { sport_client.StandUp(); usleep(100000); }
K_StandUp ==
  /\ prog = "kbd" /\ pc = "k_standup"
  /\ IF ctr < STARTUP_REPEATS
     THEN /\ last_cmd' = StandUp /\ ctr' = ctr + 1 /\ pc' = pc
          /\ ctor_sent' = CtorSend(ctor_sent, StandUp)
     ELSE /\ last_cmd' = last_cmd /\ ctr' = 0 /\ pc' = "k_balance"
          /\ ctor_sent' = ctor_sent
  /\ UNCHANGED << prog, running, exit_status, current_mode, TEST_MODE, flag,
                  thread_started, ticks, tick_cmds, exit_ticks, imu_only_nc, kvars >>

\* for (int i = 0; i < 30; i++) { sport_client.BalanceStand(); usleep(100000); }
K_BalanceStand ==
  /\ prog = "kbd" /\ pc = "k_balance"
  /\ IF ctr < STARTUP_REPEATS
     THEN /\ last_cmd' = BalanceStand /\ ctr' = ctr + 1 /\ pc' = pc
          /\ ctor_sent' = CtorSend(ctor_sent, BalanceStand)
     ELSE /\ last_cmd' = last_cmd /\ ctr' = 0 /\ pc' = "k_stop"
          /\ ctor_sent' = ctor_sent
  /\ UNCHANGED << prog, running, exit_status, current_mode, TEST_MODE, flag,
                  thread_started, ticks, tick_cmds, exit_ticks, imu_only_nc, kvars >>

\* sport_client.StopMove(); PrintHelp(); ends the constructor.
K_StopMove ==
  /\ prog = "kbd" /\ pc = "k_stop"
  /\ last_cmd' = StopMove
  /\ ctor_sent' = CtorSend(ctor_sent, StopMove)
  /\ pc' = "k_thread"
  /\ UNCHANGED << prog, ctr, running, exit_status, current_mode, TEST_MODE,
                  flag, thread_started, ticks, tick_cmds, exit_ticks, imu_only_nc, kvars >>

(* -- main of the keyboard program -- *)

\* sleep(1); CreateRecurrentThread(dt * 1000000, RobotControl)
K_CreateThread ==
  /\ prog = "kbd" /\ pc = "k_thread"
  /\ thread_started' = TRUE
  /\ pc' = "k_check"
  /\ UNCHANGED << prog, ctr, running, exit_status, last_cmd, current_mode,
                  TEST_MODE, flag, ticks, tick_cmds, exit_ticks, imu_only, kvars >>

\* while (controller.running)
K_LoopCheck ==
  /\ prog = "kbd" /\ pc = "k_check"
  /\ pc' = IF running THEN "k_input" ELSE "k_return"
  /\ UNCHANGED << prog, ctr, running, exit_status, last_cmd, current_mode,
                  TEST_MODE, flag, thread_started, ticks, tick_cmds,
                  exit_ticks, imu_only, kvars >>

\* controller.HandleInput(): GetKey, the exit key, the switch over the key.
K_HandleInput ==
  /\ prog = "kbd" /\ pc = "k_input"
  /\ \E key \in Keys :
       /\ last_key' = key
       /\ key_seen' = (key_seen \/ key \notin {"none", "x"})
       /\ IF key = "none"
          THEN UNCHANGED << running, current_mode, exit_ticks >>
          ELSE IF key = "ESC"
          THEN /\ running' = FALSE
               /\ exit_ticks' = 0
               /\ UNCHANGED current_mode
          ELSE /\ current_mode' = KeyMode(key, current_mode)
               /\ UNCHANGED << running, exit_ticks >>
  /\ pc' = "k_sleep"
  /\ UNCHANGED << prog, ctr, exit_status, last_cmd, TEST_MODE, flag,
                  thread_started, ticks, tick_cmds, imu_only >>

\* usleep(50000);
K_Sleep ==
  /\ prog = "kbd" /\ pc = "k_sleep"
  /\ pc' = "k_check"
  /\ UNCHANGED << prog, ctr, running, exit_status, last_cmd, current_mode,
                  TEST_MODE, flag, thread_started, ticks, tick_cmds,
                  exit_ticks, imu_only, kvars >>

\* return 0; the control thread and the controller are destroyed
\* (~SimpleKeyboardController only restores the terminal).
K_Return ==
  /\ prog = "kbd" /\ pc = "k_return"
  /\ exit_status' = "0"
  /\ thread_started' = FALSE
  /\ pc' = "exit"
  /\ UNCHANGED << prog, ctr, running, last_cmd, current_mode, TEST_MODE, flag,
                  ticks, tick_cmds, exit_ticks, imu_only, kvars >>

\* One period of the recurrent thread: SimpleKeyboardController::RobotControl.
K_Tick ==
  /\ prog = "kbd" /\ thread_started
  /\ Tick(KbdCommands(current_mode))
  /\ UNCHANGED << prog, pc, ctr, running, exit_status, current_mode, TEST_MODE,
                  flag, thread_started, imu_only, kvars >>

NextKbd ==
  \/ K_SetMode \/ K_StandUp \/ K_BalanceStand \/ K_StopMove
  \/ K_CreateThread \/ K_LoopCheck \/ K_HandleInput \/ K_Sleep \/ K_Return
  \/ K_Tick

SpecKbd == InitKbd /\ [][NextKbd]_vars

(* -- the dispatchers applied to any value of their selector -- *)

\* One period of the recurrent thread: Custom::RobotControl.
X_Tick ==
  /\ prog = "mode" /\ thread_started
  /\ Tick(CustomCommands(TEST_MODE, flag))
  /\ flag' = CustomFlag(TEST_MODE, flag)
  /\ UNCHANGED << prog, pc, ctr, running, exit_status, current_mode, TEST_MODE,
                  thread_started, imu_only, kvars >>

\* A controller as constructed (flag = 0), its control thread running, its
\* selector holding any value of SelectorValues.
InitTick ==
  /\ prog \in {"kbd", "mode"}
  /\ pc = "ticking"
  /\ running = TRUE
  /\ thread_started = TRUE
  /\ \E v \in SelectorValues :
       /\ current_mode = (IF prog = "kbd" THEN v ELSE STOP)
       /\ TEST_MODE = (IF prog = "mode" THEN v ELSE normal_stand)
  /\ flag = 0
  /\ ctr = 0 /\ seg = 0 /\ elapsed = 0 /\ traveled = 0
  /\ initial_yaw = 0 /\ target_yaw = 0 /\ target_angle = 0
  /\ yaw_initialized = FALSE /\ state_yaw = 0 /\ subscribed = FALSE
  /\ hpc = "idle" /\ last_cmd = NoCmd /\ cmd_seg = -1 /\ seg_stops = 0
  /\ move_after_stop = FALSE /\ arrived = FALSE /\ executed = 0
  /\ skipped = FALSE /\ torn_read = FALSE /\ post_cancel = -1
  /\ exit_status = "none"
  /\ seg_pass = "none" /\ latched = FALSE /\ key_seen = FALSE
  /\ last_key = "none" /\ last_err = 0 /\ argc = 0 /\ argv_mode = << >>
  /\ main_mode = 0
  /\ ctor_sent = (IF prog = "kbd" THEN StartupSent ELSE NoneSent)
  /\ ticks = 0 /\ tick_cmds = 0 /\ exit_ticks = -1
  /\ theta = 0 /\ kshift = 0 /\ norm_out = 0 /\ norm_shifted = 0

NextTick == K_Tick \/ X_Tick

SpecTick == InitTick /\ [][NextTick]_vars

----------------------------------------------------------------------------
(* The normalisation loops applied to any raw heading error *)

\* Raw errors reach NormSlack beyond [-2 pi, 2 pi], the range of a
\* difference of two yaws, and are shifted by up to MaxK whole turns.
NormSlack == 4
MaxK == 2

Thetas == (0 - TWO_PI - NormSlack) .. (TWO_PI + NormSlack)
Shifts == (0 - MaxK) .. MaxK

InitNorm ==
  /\ prog = "norm"
  /\ pc = "n_input"
  /\ theta \in Thetas
  /\ kshift \in Shifts
  /\ norm_out = 0 /\ norm_shifted = 0
  /\ running = FALSE /\ thread_started = FALSE
  /\ current_mode = 0 /\ TEST_MODE = 0 /\ flag = 0
  /\ ctr = 0 /\ seg = 0 /\ elapsed = 0 /\ traveled = 0
  /\ initial_yaw = 0 /\ target_yaw = 0 /\ target_angle = 0
  /\ yaw_initialized = FALSE /\ state_yaw = 0 /\ subscribed = FALSE
  /\ hpc = "idle" /\ last_cmd = NoCmd /\ cmd_seg = -1 /\ seg_stops = 0
  /\ move_after_stop = FALSE /\ arrived = FALSE /\ executed = 0
  /\ skipped = FALSE /\ torn_read = FALSE /\ post_cancel = -1
  /\ exit_status = "none"
  /\ seg_pass = "none" /\ latched = FALSE /\ key_seen = FALSE
  /\ last_key = "none" /\ last_err = 0 /\ argc = 0 /\ argv_mode = << >>
  /\ main_mode = 0
  /\ ctor_sent = NoneSent
  /\ ticks = 0 /\ tick_cmds = 0 /\ exit_ticks = -1

\* The two while loops run on theta and on theta shifted by kshift turns.
N_Normalize ==
  /\ prog = "norm" /\ pc = "n_input"
  /\ norm_out' = Normalize(theta)
  /\ norm_shifted' = Normalize(theta + TWO_PI * kshift)
  /\ pc' = "n_done"
  /\ UNCHANGED << prog, ctr, running, exit_status, last_cmd, current_mode,
                  TEST_MODE, flag, thread_started, ticks, tick_cmds,
                  exit_ticks, theta, kshift, seg, elapsed, traveled,
                  initial_yaw, target_yaw, target_angle, yaw_initialized,
                  state_yaw, subscribed, hpc, cmd_seg, seg_stops,
                  move_after_stop, arrived, executed, skipped, torn_read,
                  post_cancel, seg_pass, latched, kvars, avars, ctor_sent >>

NextNorm == N_Normalize

SpecNorm == InitNorm /\ [][NextNorm]_vars

----------------------------------------------------------------------------
(* The turn operations called in any order on a latched controller *)

\* Headings the first sample may latch: every yaw in (-pi, pi].
InitialYaws == (1 - PI) .. PI

\* A controller whose heading reference has been latched by the first
\* sample, before the first turn operation.
InitTurns ==
  /\ prog = "turns"
  /\ pc = "call"
  /\ running = TRUE
  /\ yaw_initialized = TRUE /\ latched = TRUE
  /\ initial_yaw \in InitialYaws
  /\ target_yaw = initial_yaw
  /\ target_angle = target_yaw
  /\ state_yaw = initial_yaw
  /\ subscribed = TRUE /\ hpc = "idle"
  /\ thread_started = FALSE
  /\ current_mode = 0 /\ TEST_MODE = 0 /\ flag = 0
  /\ ctr = 0 /\ seg = 0 /\ elapsed = 0 /\ traveled = 0
  /\ last_cmd = StopMove /\ cmd_seg = -1 /\ seg_stops = 0
  /\ move_after_stop = FALSE /\ arrived = FALSE /\ executed = 0
  /\ skipped = FALSE /\ torn_read = FALSE /\ post_cancel = -1
  /\ exit_status = "none"
  /\ ticks = 0 /\ tick_cmds = 0 /\ exit_ticks = -1
  /\ theta = 0 /\ kshift = 0 /\ norm_out = 0 /\ norm_shifted = 0
  /\ seg_pass = "none" /\ key_seen = FALSE
  /\ last_key = "none" /\ last_err = 0 /\ argc = 0 /\ argv_mode = << >>
  /\ main_mode = 0
  /\ ctor_sent = StartupSent

\* What a call of a turn operation leaves behind: the new target_yaw handed
\* to Turn, whose last command is the StopMove after its loop.
TurnCall(new_target) ==
  /\ prog = "turns" /\ pc = "call"
  /\ IF ~yaw_initialized
     THEN UNCHANGED << target_yaw, target_angle, last_cmd >>
     ELSE /\ target_yaw' = new_target
          /\ target_angle' = new_target
          /\ last_cmd' = StopMove
  /\ UNCHANGED << dvars, pc, ctr, seg, elapsed, traveled, exit_status,
                  running, initial_yaw, yaw_initialized, hvars, hist,
                  cmd_seg, seg_stops, move_after_stop, post_cancel >>

\* target_yaw -= M_PI / 2.0f; the wrapping loop; Turn(target_yaw);
TurnRight90Degrees == TurnCall(TurnRightTarget(target_yaw, HALF_PI))

\* target_yaw += M_PI / 2.0f; the wrapping loop; Turn(target_yaw);
TurnLeft90Degrees == TurnCall(TurnLeftTarget(target_yaw, HALF_PI))

\* target_yaw -= M_PI / 9.0f; the wrapping loop; Turn(target_yaw);
TurnRight20Degrees == TurnCall(TurnRightTarget(target_yaw, NINTH_PI))

\* target_yaw += M_PI / 9.0f; the wrapping loop; Turn(target_yaw);
TurnLeft20Degrees == TurnCall(TurnLeftTarget(target_yaw, NINTH_PI))

NextTurns ==
  \/ TurnRight90Degrees \/ TurnLeft90Degrees
  \/ TurnRight20Degrees \/ TurnLeft20Degrees

SpecTurns == InitTurns /\ [][NextTurns]_vars

----------------------------------------------------------------------------
(* One pass of each control loop on every pair of target and current yaw *)

\* Targets the loops are given, and the yaws the stored sample may hold.
LawTargets == {-PI, -HALF_PI, 0, NINTH_PI, HALF_PI, PI}
LawYaws == (0 - PI) .. PI

\* A latched controller about to run a pass of a control loop.
InitLaw ==
  /\ prog = "law"
  /\ pc = "l_input"
  /\ running = TRUE
  /\ yaw_initialized = TRUE /\ latched = TRUE
  /\ target_yaw \in LawTargets
  /\ target_angle = target_yaw
  /\ initial_yaw = 0
  /\ state_yaw \in LawYaws
  /\ subscribed = TRUE /\ hpc = "idle"
  /\ thread_started = FALSE
  /\ current_mode = 0 /\ TEST_MODE = 0 /\ flag = 0
  /\ ctr = 0 /\ seg = 0 /\ elapsed = 0 /\ traveled = 0
  /\ last_cmd = NoCmd /\ cmd_seg = -1 /\ seg_stops = 0
  /\ move_after_stop = FALSE /\ arrived = FALSE /\ executed = 0
  /\ skipped = FALSE /\ torn_read = FALSE /\ post_cancel = -1
  /\ exit_status = "none"
  /\ ticks = 0 /\ tick_cmds = 0 /\ exit_ticks = -1
  /\ theta = 0 /\ kshift = 0 /\ norm_out = 0 /\ norm_shifted = 0
  /\ seg_pass = "none" /\ key_seen = FALSE
  /\ last_key = "none" /\ last_err = 0 /\ argc = 0 /\ argv_mode = << >>
  /\ main_mode = 0
  /\ ctor_sent = StartupSent

law_frame == << prog, ctr, seg, elapsed, traveled, exit_status, members, hvars,
               executed, skipped, torn_read, latched, cmd_seg, seg_stops,
               move_after_stop, post_cancel, seg_pass, target_angle,
               current_mode, TEST_MODE, flag, thread_started, ticks,
               tick_cmds, exit_ticks, nvars, kvars, argc, argv_mode, main_mode,
               ctor_sent >>

\* A pass of MoveForward's loop body: read the yaw, normalise the error,
\* Move with the clamped correction.
L_MoveForwardPass ==
  /\ prog = "law" /\ pc = "l_input"
  /\ LET current_yaw == state_yaw
         yaw_error == Normalize(target_yaw - current_yaw) IN
       /\ last_err' = yaw_error
       /\ last_cmd' = Move(FORWARD_SPEED, 0, YawCorrection(yaw_error))
  /\ pc' = "l_forward"
  /\ UNCHANGED << law_frame, arrived >>

\* A pass of Turn's loop body: read the yaw, normalise the error, break
\* inside the tolerance, otherwise Move at the fixed turn speed.
L_TurnPass ==
  /\ prog = "law" /\ pc = "l_input"
  /\ LET current_yaw == state_yaw
         angle_error == Normalize(target_angle - current_yaw) IN
       /\ last_err' = angle_error
       /\ IF IsAtTarget(angle_error)
          THEN arrived' = TRUE /\ last_cmd' = last_cmd
          ELSE arrived' = arrived
               /\ last_cmd' = Move(0, 0, TurnDirection(angle_error))
  /\ pc' = "l_turn"
  /\ UNCHANGED law_frame

NextLaw == L_MoveForwardPass \/ L_TurnPass

SpecLaw == InitLaw /\ [][NextLaw]_vars

----------------------------------------------------------------------------
(* Turn in closed loop with a robot that turns as commanded *)

\* The yaw of the next sample when the robot has turned at the commanded rate
\* (0.001 rad/s) for the SLEEP_MS of one pass; the transport reports yaw
\* within (-pi, pi].
PlantYaw(y, rate) ==
  LET z == y + (rate * SLEEP_MS) \div 10000
  IN  IF z > PI THEN z - TWO_PI ELSE IF z <= -PI THEN z + TWO_PI ELSE z

\* Turn(target_angle) is entered on a latched controller, for any target and
\* any current yaw; with subscribed the samples follow the robot's turning,
\* without it no further sample arrives and the stored yaw never changes.
InitPlant ==
  /\ prog = "plant"
  /\ pc = "p_loop"
  /\ running = TRUE
  /\ yaw_initialized = TRUE /\ latched = TRUE
  /\ target_yaw \in LawTargets
  /\ target_angle = target_yaw
  /\ initial_yaw = 0
  /\ state_yaw \in LawYaws
  /\ subscribed \in BOOLEAN
  /\ hpc = "idle"
  /\ thread_started = FALSE
  /\ current_mode = 0 /\ TEST_MODE = 0 /\ flag = 0
  /\ ctr = 0 /\ seg = 0 /\ elapsed = 0 /\ traveled = 0
  /\ last_cmd = StopMove /\ cmd_seg = -1 /\ seg_stops = 0
  /\ move_after_stop = FALSE /\ arrived = FALSE /\ executed = 0
  /\ skipped = FALSE /\ torn_read = FALSE /\ post_cancel = -1
  /\ exit_status = "none"
  /\ ticks = 0 /\ tick_cmds = 0 /\ exit_ticks = -1
  /\ theta = 0 /\ kshift = 0 /\ norm_out = 0 /\ norm_shifted = 0
  /\ seg_pass = "none" /\ key_seen = FALSE
  /\ last_key = "none" /\ last_err = 0 /\ argc = 0 /\ argv_mode = << >>
  /\ main_mode = 0
  /\ ctor_sent = StartupSent

plant_frame == << prog, ctr, seg, elapsed, traveled, exit_status, members,
                 subscribed, hpc, executed, skipped, torn_read, latched,
                 cmd_seg, seg_stops, move_after_stop, post_cancel,
                 target_angle, current_mode, TEST_MODE, flag, thread_started,
                 ticks, tick_cmds, exit_ticks, nvars, kvars, argc, argv_mode,
                 main_mode, ctor_sent >>

\* Mutant: a pass without the tolerance test and its break.
P_TurnPass_NoBreak ==
  /\ prog = "plant" /\ pc = "p_loop"
  /\ IF ~TurnLoopCond(running)
     THEN /\ pc' = "p_stop"
          /\ UNCHANGED << last_err, arrived, last_cmd, seg_pass >>
     ELSE LET current_yaw == state_yaw
              angle_error == Normalize(target_angle - current_yaw) IN
            /\ last_err' = angle_error
            /\ seg_pass' = NextPass(seg_pass)
            /\ arrived' = arrived
            /\ last_cmd' = Move(0, 0, TurnDirection(angle_error))
            /\ pc' = "p_sleep"
  /\ UNCHANGED << plant_frame, state_yaw >>

\* while (running) and one pass of Turn's loop body up to its usleep: read
\* the yaw, normalise the error, break inside the tolerance, otherwise Move.
P_TurnPass ==
  /\ prog = "plant" /\ pc = "p_loop"
  /\ IF ~TurnLoopCond(running)
     THEN /\ pc' = "p_stop"
          /\ UNCHANGED << last_err, arrived, last_cmd, seg_pass >>
     ELSE LET current_yaw == state_yaw
              angle_error == Normalize(target_angle - current_yaw) IN
            /\ last_err' = angle_error
            /\ seg_pass' = NextPass(seg_pass)
            /\ IF IsAtTarget(angle_error)
               THEN arrived' = TRUE /\ last_cmd' = last_cmd /\ pc' = "p_stop"
               ELSE /\ arrived' = arrived
                    /\ last_cmd' = Move(0, 0, TurnDirection(angle_error))
                    /\ pc' = "p_sleep"
  /\ UNCHANGED << plant_frame, state_yaw >>

\* usleep(20000), during which the robot turns and the next sample is stored.
P_Sleep ==
  /\ prog = "plant" /\ pc = "p_sleep"
  /\ state_yaw' = IF subscribed THEN PlantYaw(state_yaw, last_cmd.z)
                                ELSE state_yaw
  /\ pc' = "p_loop"
  /\ UNCHANGED << plant_frame, last_err, arrived, last_cmd, seg_pass >>

\* sport_client.StopMove(); Turn returns.
P_Stop ==
  /\ prog = "plant" /\ pc = "p_stop"
  /\ last_cmd' = StopMove
  /\ pc' = "p_done"
  /\ UNCHANGED << plant_frame, state_yaw, last_err, arrived, seg_pass >>

NextPlant == P_TurnPass \/ P_Sleep \/ P_Stop

\* main's thread keeps running: a pass that can be taken is taken.
SpecPlant == InitPlant /\ [][NextPlant]_vars /\ WF_vars(NextPlant)

----------------------------------------------------------------------------
(* The autonomous and the teleoperation program side by side *)

\* Either program is started; each runs its own steps.
InitStartup == Init \/ InitKbd

NextStartup == Next \/ NextKbd

SpecStartup == InitStartup /\ [][NextStartup]_vars

----------------------------------------------------------------------------
(* main of the mode-command program on any command line *)

\* Longest argv[2] tried, in characters.
MaxArgLen == 3

\* The characters argv[2] is made of: digits, a sign, a blank, a letter and
\* a decimal point.
ArgChars == {"0", "2", "9", "-", " ", "x", "."}

\* The values of argc tried: program name alone, with the interface, with
\* the interface and the mode.
ArgCounts == 1 .. 3

StringsUpTo(n) == UNION {[1 .. k -> ArgChars] : k \in 0 .. n}

IsDigit(c) == c \in {"0", "2", "9"}

DigitValue(c) == CASE c = "0" -> 0 [] c = "2" -> 2 [] c = "9" -> 9

\* std::stoi skips leading white space,
RECURSIVE SkipSpace(_)
SkipSpace(s) ==
  IF s # << >> /\ Head(s) = " " THEN SkipSpace(Tail(s)) ELSE s

\* and converts the longest run of digits that follows the sign: the record
\* holds the number of digits consumed and their value.
RECURSIVE DigitRun(_, _, _)
DigitRun(s, n, v) ==
  IF s # << >> /\ IsDigit(Head(s))
  THEN DigitRun(Tail(s), n + 1, 10 * v + DigitValue(Head(s)))
  ELSE [n |-> n, v |-> v]

\* std::stoi(argv[2]): ok is FALSE where it throws std::invalid_argument (no
\* digit to convert); whatever follows the digits is ignored.  A run of at
\* most MaxArgLen digits fits an int, so std::out_of_range is not thrown.
Stoi(s) ==
  LET t == SkipSpace(s)
      neg == t # << >> /\ Head(t) = "-"
      u == IF neg THEN Tail(t) ELSE t
      r == DigitRun(u, 0, 0)
  IN  [ok |-> r.n > 0, v |-> IF neg THEN 0 - r.v ELSE r.v]

\* main is entered with some command line; Custom does not exist yet.
InitArgs ==
  /\ prog = "mode"
  /\ pc = "a_argc"
  /\ argc \in ArgCounts
  /\ argv_mode \in (IF argc >= 3 THEN StringsUpTo(MaxArgLen) ELSE {<< >>})
  /\ main_mode = 0
  /\ ctor_sent = NoneSent
  /\ running = TRUE
  /\ current_mode = STOP
  /\ TEST_MODE = normal_stand
  /\ flag = 0
  /\ thread_started = FALSE
  /\ ctr = 0 /\ seg = 0 /\ elapsed = 0 /\ traveled = 0
  /\ initial_yaw = 0 /\ target_yaw = 0 /\ target_angle = 0
  /\ yaw_initialized = FALSE /\ state_yaw = 0 /\ subscribed = FALSE
  /\ hpc = "idle" /\ last_cmd = NoCmd /\ cmd_seg = -1 /\ seg_stops = 0
  /\ move_after_stop = FALSE /\ arrived = FALSE /\ executed = 0
  /\ skipped = FALSE /\ torn_read = FALSE /\ post_cancel = -1
  /\ exit_status = "none"
  /\ seg_pass = "none" /\ latched = FALSE /\ key_seen = FALSE
  /\ last_key = "none" /\ last_err = 0
  /\ ticks = 0 /\ tick_cmds = 0 /\ exit_ticks = -1
  /\ theta = 0 /\ kshift = 0 /\ norm_out = 0 /\ norm_shifted = 0

args_frame == << prog, ctr, seg, elapsed, traveled, target_angle, members,
                 hvars, ghost, hist, current_mode, flag, ticks, tick_cmds,
                 exit_ticks, nvars, kvars, last_err, argc, argv_mode,
                 ctor_sent >>

\* if (argc < 3) { PrintUsage(argv[0]); exit(-1); }
A_CheckArgc ==
  /\ prog = "mode" /\ pc = "a_argc"
  /\ IF argc < 3
     THEN pc' = "exit" /\ exit_status' = "-1"
     ELSE pc' = "a_parse" /\ exit_status' = exit_status
  /\ UNCHANGED << args_frame, main_mode, TEST_MODE, thread_started >>

\* try { mode = std::stoi(argv[2]); } catch (...) { ...; exit(-1); }
A_ParseMode ==
  /\ prog = "mode" /\ pc = "a_parse"
  /\ LET r == Stoi(argv_mode) IN
       IF r.ok
       THEN main_mode' = r.v /\ pc' = "a_range" /\ exit_status' = exit_status
       ELSE main_mode' = main_mode /\ pc' = "exit" /\ exit_status' = "-1"
  /\ UNCHANGED << args_frame, TEST_MODE, thread_started >>

\* if (mode < 0 || (mode > 8 && mode != 99)) { ...; exit(-1); }
A_CheckRange ==
  /\ prog = "mode" /\ pc = "a_range"
  /\ IF main_mode < 0 \/ (main_mode > 8 /\ main_mode # 99)
     THEN pc' = "exit" /\ exit_status' = "-1"
     ELSE pc' = "a_setmode" /\ exit_status' = exit_status
  /\ UNCHANGED << args_frame, main_mode, TEST_MODE, thread_started >>

\* Custom custom; custom.SetTestMode(mode);
A_SetTestMode ==
  /\ prog = "mode" /\ pc = "a_setmode"
  /\ TEST_MODE' = main_mode
  /\ pc' = "a_thread"
  /\ UNCHANGED << args_frame, main_mode, exit_status, thread_started >>

\* sleep(1); custom.GetInitState(); CreateRecurrentThread(..., RobotControl);
\* main then sleeps for ever.
A_CreateThread ==
  /\ prog = "mode" /\ pc = "a_thread"
  /\ thread_started' = TRUE
  /\ pc' = "a_wait"
  /\ UNCHANGED << args_frame, main_mode, exit_status, TEST_MODE >>

NextArgs ==
  \/ A_CheckArgc \/ A_ParseMode \/ A_CheckRange \/ A_SetTestMode
  \/ A_CreateThread \/ X_Tick

SpecArgs == InitArgs /\ [][NextArgs]_vars

----------------------------------------------------------------------------
(* Claims about the autonomous program *)

\* C2: if running is cleared by another context while Turn or MoveForward
\* runs its loop, at most one further command is sent to the sport client,
\* and that command is StopMove.
C2_CancelThenOneStop ==
  post_cancel >= 1 => (post_cancel = 1 /\ last_cmd = StopMove)

\* C3: the plan's segments run strictly in order and none is skipped: a
\* command is sent by segment seg only when all seg earlier segments have run
\* to their stop, and a forward Move that follows a Turn is sent only after
\* that Turn saw the heading error inside the tolerance.
C3_PlanOrder ==
  /\ ~skipped
  /\ InPlan => executed = seg
  /\ cmd_seg >= 0 => cmd_seg \in {seg, seg - 1}
  /\ (last_cmd.k = "Move" /\ last_cmd.x # 0 /\ cmd_seg > 0) => arrived

\* A forward Move of the plan's last segment, sent after the Turn before it
\* arrived.
C3_Witness ==
  /\ pc = "mf_sleep" /\ seg = PlanLen - 1
  /\ last_cmd.k = "Move" /\ last_cmd.x # 0 /\ arrived

\* C4: every executed segment sends exactly one StopMove, after its last
\* Move: none before its loop ends, one once the call has returned, and no
\* Move after the stop.
C4_OneStopPerSegment ==
  /\ InPlan => seg_stops = 0
  /\ (pc = "m_sleep" /\ ~skipped) => seg_stops = 1
  /\ ~move_after_stop
  /\ (pc = "m_sleep" /\ ~skipped) => (last_cmd = StopMove /\ cmd_seg = seg)

\* A MoveForward whose loop ran until the estimate reached the target has
\* returned, its one StopMove sent last.
C4_Witness ==
  /\ pc = "m_sleep" /\ CurSeg.op = "MoveForward" /\ ~skipped
  /\ traveled >= CurSeg.d * 1000 /\ seg_stops = 1 /\ last_cmd = StopMove

\* C7: the yaw a control loop reads while the callback overwrites the stored
\* sample is the yaw of one complete sample, the old or the new one.
C7_ReadsCompleteSample == ~torn_read

\* C8: a sample that has not arrived is never fatal to the process and never
\* makes a call of the plan return without executing its segment.
C8_NotReadyNotFatal == exit_status # "-1" /\ ~skipped

----------------------------------------------------------------------------
(* Claims about the mode dispatchers *)

\* C1: once the exit key has cleared running, the control tick sends StopMove
\* within one further tick and no other command after it, whatever
\* current_mode held: every tick after the exit key sends StopMove.
C1_ExitKeyStops == exit_ticks >= 1 => last_cmd = StopMove

SelectorIsEnumerator ==
  \/ prog = "kbd" /\ current_mode \in ControlModes
  \/ prog = "mode" /\ TEST_MODE \in TestModes

\* C5 as claimed: for every enumerator of the mode, every control tick sends
\* exactly one command, on every tick and not only the first.
C5_EveryTickOneCommand ==
  (ticks >= 1 /\ SelectorIsEnumerator) => tick_cmds = 1

\* C5 as amended: for every enumerator every control tick sends exactly one
\* command, except that Custom::RobotControl in mode sit or rise_sit sends
\* its command on the first tick only and no command on any later tick.
C5_OneCommandExceptOneShot ==
  (ticks >= 1 /\ SelectorIsEnumerator) =>
    tick_cmds = (IF prog = "mode" /\ TEST_MODE \in {sit, rise_sit} /\ ticks >= 2
                 THEN 0 ELSE 1)

\* The second tick of Custom::RobotControl in mode sit sent nothing, the Sit
\* of the first tick still the last command.
C5_Witness ==
  /\ prog = "mode" /\ TEST_MODE = sit /\ ticks = 2
  /\ tick_cmds = 0 /\ last_cmd.k = "Sit"

\* C6: with a selector value that is no enumerator, the control tick sends
\* StopMove and nothing else.
C6_UnmappedFailsClosed ==
  (ticks >= 1 /\ ~SelectorIsEnumerator) => (tick_cmds = 1 /\ last_cmd = StopMove)

\* Ticks of the keyboard dispatcher with current_mode one past STAND_DOWN.
C6_Witness ==
  /\ prog = "kbd" /\ current_mode = STAND_DOWN + 1 /\ ticks = 2
  /\ tick_cmds = 1 /\ last_cmd = StopMove

----------------------------------------------------------------------------
(* Claims about the normalisation *)

----------------------------------------------------------------------------
(* Claims about the turn operations *)

----------------------------------------------------------------------------
(* Claims about one pass of the control loops *)

\* C12: every Move of MoveForward has forward speed 0.5, no lateral speed and
\* an angular rate of magnitude at most the correction limit 0.3 rad/s, for
\* every pair of current and target yaw; inside the limit the rate is the
\* gain times the normalised error (the error congruent to target - current
\* modulo 2 pi and of magnitude at most pi).
C12_CorrectionClamped ==
  pc = "l_forward" =>
    /\ last_cmd.k = "Move" /\ last_cmd.x = FORWARD_SPEED /\ last_cmd.y = 0
    /\ Abs(last_cmd.z) <= YAW_CORRECTION_LIMIT
    /\ (last_err - (target_yaw - state_yaw)) % TWO_PI = 0
    /\ Abs(last_err) <= PI
    /\ Abs(last_err * YAW_CORRECTION_GAIN) <= YAW_CORRECTION_LIMIT
         => last_cmd.z = last_err * YAW_CORRECTION_GAIN

\* An error of -pi/2 was clamped to -0.3 rad/s.
C12_Witness ==
  /\ pc = "l_forward" /\ target_yaw = 0 /\ state_yaw = HALF_PI
  /\ last_err = -HALF_PI /\ last_cmd = Move(FORWARD_SPEED, 0, -YAW_CORRECTION_LIMIT)

\* C13 as claimed: with target yaw 0 a pass of Turn reports arrival (breaks
\* without a Move) if and only if the current yaw is in (-0.05, 0.05].
C13_ArrivedHalfOpen ==
  (pc = "l_turn" /\ target_angle = 0) =>
    /\ arrived <=> (state_yaw > -ANGLE_TOLERANCE /\ state_yaw <= ANGLE_TOLERANCE)
    /\ arrived <=> last_cmd.k # "Move"

\* C13 as amended: with target yaw 0 a pass of Turn reports arrival (breaks
\* without a Move) if and only if the current yaw is in the open interval
\* (-0.05, 0.05); at exactly 0.05 and at exactly -0.05 it sends a Move.
C13_ArrivedOpen ==
  (pc = "l_turn" /\ target_angle = 0) =>
    /\ arrived <=> (state_yaw > -ANGLE_TOLERANCE /\ state_yaw < ANGLE_TOLERANCE)
    /\ arrived <=> last_cmd.k # "Move"

\* At a current yaw of exactly 0.05 the pass did not arrive and turned right.
C13_Witness ==
  /\ pc = "l_turn" /\ target_angle = 0 /\ state_yaw = ANGLE_TOLERANCE
  /\ ~arrived /\ last_cmd = Move(0, 0, -TURN_SPEED)

\* C19: every Move of Turn has forward and lateral speed 0 and an angular
\* rate of magnitude exactly turn_speed, positive exactly when the
\* normalised error is positive, and rotating by at most pi in that direction
\* from the current yaw reaches the target.
C19_BangBangShorterArc ==
  (pc = "l_turn" /\ ~arrived) =>
    /\ last_cmd.k = "Move" /\ last_cmd.x = 0 /\ last_cmd.y = 0
    /\ Abs(last_cmd.z) = TURN_SPEED
    /\ last_cmd.z > 0 <=> last_err > 0
    /\ \E d \in 0 .. PI :
         (state_yaw + (IF last_cmd.z > 0 THEN d ELSE -d) - target_angle)
           % TWO_PI = 0

\* An error just outside the tolerance still turns at the full turn speed.
C19_Witness ==
  /\ pc = "l_turn" /\ target_angle = 0 /\ state_yaw = -ANGLE_TOLERANCE
  /\ last_err = ANGLE_TOLERANCE /\ last_cmd = Move(0, 0, TURN_SPEED)

----------------------------------------------------------------------------
(* Claims about the segments of the autonomous plan *)

\* C14: a Turn whose heading error is inside the tolerance on its first pass
\* sends no Move at all: it reaches its stop with no command of its own sent,
\* and returns with StopMove as its first and only command.
C14_ArrivedAtOnceOnlyStops ==
  /\ (pc = "t_stop" /\ arrived /\ seg_pass = "first") => cmd_seg # seg
  /\ (pc = "m_sleep" /\ ~skipped /\ IsTurnOp(CurSeg.op)
        /\ arrived /\ seg_pass = "first")
       => (last_cmd = StopMove /\ cmd_seg = seg /\ seg_stops = 1
             /\ ~move_after_stop)

\* A Turn that arrived on its first pass has returned after its StopMove.
C14_Witness ==
  /\ pc = "m_sleep" /\ ~skipped /\ IsTurnOp(CurSeg.op) /\ running
  /\ arrived /\ seg_pass = "first" /\ last_cmd = StopMove /\ cmd_seg = seg

\* C15: a MoveForward segment completes on the first tick at which the
\* distance estimate is at least the target and not before: a pass is entered
\* only with the estimate below the target, no Move is sent on a tick whose
\* estimate has reached the target, and the loop is left with running set
\* only once the estimate has reached it.
C15_NoMoveOnceReached ==
  /\ pc = "mf_body" => traveled < CurSeg.d * 1000
  /\ pc = "mf_sleep" => (last_cmd.k = "Move" /\ traveled < CurSeg.d * 1000)
  /\ (pc = "mf_stop" /\ running) => traveled >= CurSeg.d * 1000

\* C20: the heading reference is latched exactly once: after the callback
\* has latched, initial_yaw never changes, yaw_initialized stays true, and
\* target_yaw changes only in a turn operation called by main.
C20_LatchedOnce ==
  [][latched => /\ initial_yaw' = initial_yaw
                /\ yaw_initialized'
                /\ (target_yaw' # target_yaw => pc = "call")]_vars

----------------------------------------------------------------------------
(* Claims about the keyboard program *)

\* C16: current_mode is STOP before the control thread is created, and every
\* control tick that runs before a recognized key has been received sends
\* exactly one command, StopMove.
C16_StopBeforeAnyKey ==
  /\ (thread_started /\ ~key_seen) => current_mode = STOP
  /\ (ticks >= 1 /\ ~key_seen) => (tick_cmds = 1 /\ last_cmd = StopMove)

\* A tick has run while only unrecognized keys, or none, were received.
C16_Witness ==
  /\ prog = "kbd" /\ thread_started /\ ticks >= 2 /\ ~key_seen
  /\ last_key = "x" /\ last_cmd = StopMove

\* C17: a call of HandleInput sends no command; with no key, an unrecognized
\* key or the help key it changes neither current_mode nor running; with a
\* movement or posture key it leaves running unchanged; with the exit key it
\* sets running to false and leaves current_mode unchanged.
C17_HandleInputFrame ==
  [][(pc = "k_input" /\ pc' = "k_sleep") =>
       /\ last_cmd' = last_cmd /\ ticks' = ticks /\ tick_cmds' = tick_cmds
       /\ last_key' \in {"none", "x", "h", "H"}
            => (current_mode' = current_mode /\ running' = running)
       /\ last_key' = "ESC"
            => (running' = FALSE /\ current_mode' = current_mode)
       /\ last_key' \notin {"none", "x", "h", "H", "ESC"}
            => running' = running]_vars

\* HandleInput has handled the exit key while the mode was FORWARD, and
\* before that the help key left FORWARD selected.
C17_Witness ==
  /\ prog = "kbd" /\ pc = "k_sleep" /\ last_key = "ESC" /\ ~running
  /\ current_mode = FORWARD /\ exit_ticks = 0

----------------------------------------------------------------------------
(* Claims about the mode-command program *)

\* argv[2] is an integer: an optional minus sign, then digits, and nothing
\* else.
IsIntegerText(s) ==
  LET u == IF s # << >> /\ Head(s) = "-" THEN Tail(s) ELSE s
  IN  u # << >> /\ \A i \in 1 .. Len(u) : IsDigit(u[i])

\* C18: the control thread exists only if both arguments were given and the
\* mode argument is an integer of {0..8, 99}; a process that has exited has
\* a non-zero status and has sent no command; the mode a control tick sees
\* is one of 0..8 or 99.
C18_InvalidArgsExit ==
  /\ thread_started => /\ argc >= 3
                       /\ IsIntegerText(argv_mode)
                       /\ Stoi(argv_mode).v \in TestModes
  /\ pc = "exit" => (exit_status = "-1" /\ last_cmd = NoCmd /\ ticks = 0)
  /\ ticks >= 1 => TEST_MODE \in TestModes

----------------------------------------------------------------------------
(* Claims about the composition of the turn operations *)

\* The signed sum of the turn angles of the first n calls of main's plan,
\* left turns counted positive.
RECURSIVE PlanTurnSum(_)
PlanTurnSum(n) ==
  IF n = 0 THEN 0
  ELSE PlanTurnSum(n - 1)
         + (IF Plan[n].op = "TurnLeft" THEN Plan[n].delta
            ELSE IF Plan[n].op = "TurnRight" THEN 0 - Plan[n].delta
            ELSE 0)

\* C22: while a turn operation of main's plan runs its Turn, target_yaw
\* equals initial_yaw plus the signed sum of the angles of the turn
\* operations called so far, modulo 2 pi.
C22_TurnsCompose ==
  (prog = "imu" /\ pc \in {"t_loop", "t_body", "t_sleep", "t_stop"})
    => (target_yaw - initial_yaw - PlanTurnSum(seg + 1)) % TWO_PI = 0

----------------------------------------------------------------------------
(* Claims about the ticks of the mode-command program *)

\* C23: with TEST_MODE fixed at sit (or rise_sit) the first control tick
\* sends Sit (or RiseSit) and no later tick sends anything; with any other
\* value every tick sends one command, the same as the first tick's.
C23_OneShotPostures ==
  prog = "mode" =>
    IF TEST_MODE \in {sit, rise_sit}
    THEN /\ ticks = 1 => (tick_cmds = 1 /\ flag = 1)
         /\ ticks >= 2 => tick_cmds = 0
         /\ ticks >= 1 =>
              last_cmd.k = (IF TEST_MODE = sit THEN "Sit" ELSE "RiseSit")
    ELSE ticks >= 1 => (tick_cmds = 1 /\ flag = 0 /\ last_cmd.k # "None")

\* The third tick with TEST_MODE = sit sent nothing after the first sent Sit.
C23_Witness ==
  /\ prog = "mode" /\ TEST_MODE = sit /\ ticks = MaxTicks /\ tick_cmds = 0
  /\ flag = 1 /\ last_cmd.k = "Sit"

----------------------------------------------------------------------------
(* Claims about the start-up sequence of the two controllers *)

\* C24: in the autonomous and in the teleoperation program the constructor
\* sends 30 StandUp, then 30 BalanceStand, then one StopMove, with no other
\* command in between; no Move is sent, the control thread does not exist and
\* no control tick has run before that sequence is complete.
C24_StartupBeforeMove ==
  /\ ctor_sent.standup <= STARTUP_REPEATS
  /\ ctor_sent.balance <= STARTUP_REPEATS
  /\ ctor_sent.stop <= 1
  /\ ctor_sent.balance > 0 => ctor_sent.standup = STARTUP_REPEATS
  /\ ctor_sent.stop > 0 => ctor_sent.balance = STARTUP_REPEATS
  /\ ctor_sent # StartupSent =>
       last_cmd = (IF ctor_sent.balance > 0 THEN BalanceStand
                   ELSE IF ctor_sent.standup > 0 THEN StandUp ELSE NoCmd)
  /\ (last_cmd.k = "Move" \/ thread_started \/ ticks >= 1)
       => ctor_sent = StartupSent

\* A tick of the teleoperation program has sent a Move, after the whole
\* start-up sequence.
C24_Witness ==
  /\ prog = "kbd" /\ thread_started /\ ticks >= 1 /\ last_cmd.k = "Move"
  /\ ctor_sent = StartupSent

----------------------------------------------------------------------------
(* Claims about Turn in closed loop *)

\* C21: with running true and a yaw that changes by 0.01 rad per pass in the
\* commanded direction, every Turn reaches the tolerance band and then sends
\* StopMove and returns; from one pass to the next the error keeps its sign
\* and shrinks by 0.01 rad, so the band is never crossed; with a yaw that
\* never changes and an error outside the band, Turn never leaves its loop
\* and every pass sends a Move.
C21_TurnTerminates ==
  /\ (prog = "plant" /\ subscribed)
       ~> (pc = "p_done" /\ arrived /\ last_cmd = StopMove)
  /\ [][(prog = "plant" /\ subscribed /\ pc = "p_loop" /\ pc' # pc
           /\ seg_pass # "none")
          => /\ Abs(last_err') = Abs(last_err) - 1
             /\ (last_err' > 0) = (last_err > 0)]_vars
  /\ []((prog = "plant" /\ ~subscribed
           /\ ~IsAtTarget(Normalize(target_angle - state_yaw)))
          => /\ pc \in {"p_loop", "p_sleep"}
             /\ seg_pass # "none" => last_cmd.k = "Move")

\* A Turn that needed more than one pass has arrived at the edge of the
\* band and has sent its StopMove.
C21_Witness ==
  /\ prog = "plant" /\ subscribed /\ pc = "p_done" /\ arrived
  /\ seg_pass = "later" /\ last_cmd = StopMove
  /\ target_angle = 0 /\ state_yaw = 0 - (ANGLE_TOLERANCE - 1)

=============================================================================
